---- MODULE Spec2Model ----
(***************************************************************************)
(* Model of dlpark: the ShapeAndStrides storage (shape_and_strides.rs),    *)
(* the owning tensor wrapper (tensor.rs) and the PyCapsule hand-off        *)
(* protocol (python.rs).                                                   *)
(***************************************************************************)
EXTENDS Integers, Sequences, FiniteSets, TLC

VARIABLES
    in_shape,     \* caller's shape array (the memory a Borrowed value points into)
    in_strides,   \* caller's optional strides array
    op,           \* the ShapeAndStrides constructor that was called
    sas,          \* the constructed ShapeAndStrides value, or the panic
    t_triple,     \* tensor.rs: the DLManagedTensor value held raw
    t_proxy,      \* tensor.rs: the ManagedTensorProxy of the live ManagedTensor
    t_holder,     \* tensor.rs: "raw", "wrapped" or "dropped"
    t_calls,      \* tensor.rs: the invocations of the release callback
    t_last,       \* tensor.rs: the last operation and what it did
    t_rounds,     \* tensor.rs: conversions back to a raw triple so far
    caps,         \* python.rs: the capsule objects of the host
    tensors,      \* python.rs: the ManagedTensor handles obtained by claims
    rawHeld,      \* python.rs: the producer still holds the triple pointer
    released,     \* python.rs: the pointers the release callback was called with
    pyErr,        \* python.rs: the host's pending exception
    unraisable,   \* python.rs: reports made through PyErr_WriteUnraisable
    crashed,      \* python.rs: "no", or how the process stopped
    deleterKind,  \* python.rs: the triple's deleter: absent, ok, or fails
    lastClaim,    \* python.rs: the last claim attempt and its outcome
    lastDel       \* python.rs: the last run of the capsule destructor

shapeVars == <<in_shape, in_strides, op, sas>>
tensorVars == <<t_triple, t_proxy, t_holder, t_calls, t_last, t_rounds>>

capsuleVars == <<caps, tensors, rawHeld, released, pyErr, unraisable, crashed,
                 deleterKind, lastClaim, lastDel>>

vars == <<in_shape, in_strides, op, sas,
          t_triple, t_proxy, t_holder, t_calls, t_last, t_rounds,
          caps, tensors, rawHeld, released, pyErr, unraisable, crashed,
          deleterKind, lastClaim, lastDel>>

----------------------------------------------------------------------------
(* Bounds of the model *)

MaxLen == 3      \* longest shape / strides array
MaxDim == 3      \* largest extent of one dimension
MaxDl == 2       \* distinct dl_tensor descriptors
MaxCtx == 2      \* distinct non-null manager_ctx values
MaxRounds == 2   \* conversions of a ManagedTensor back to a raw triple
MaxCapsules == 3 \* capsule objects, the foreign one included
MaxTensors == 3  \* ManagedTensor handles created by claims
MaxAddr == 2     \* distinct triple addresses a capsule may store
MaxWideLen == 4  \* longest array of the rank-4 runs
MaxSmall == 1    \* largest entry of the rank-4 runs

DimVals == 0..MaxDim
StrideVals == 0..MaxDim \cup {2 * MaxDim}

SmallVals == 0..MaxSmall

SeqsUpTo(V, n) == UNION {[1..k -> V] : k \in 0..n}

----------------------------------------------------------------------------
(* Option<T> *)

None == [some |-> FALSE, v |-> <<>>]
Some(x) == [some |-> TRUE, v |-> x]

----------------------------------------------------------------------------
(* shape_and_strides.rs *)

NullPtr == "null"
ShapeArr == "shape_arr"        \* address of the caller's shape[0]
StridesArr == "strides_arr"    \* address of the caller's strides[0]

Unbuilt == [variant |-> "Unbuilt", buf |-> <<>>, shape_p |-> NullPtr,
            strides_p |-> NullPtr, len |-> 0]
Panic == [variant |-> "Panic", buf |-> <<>>, shape_p |-> NullPtr,
          strides_p |-> NullPtr, len |-> 0]

ShapeIdle ==
    /\ in_shape = <<>>
    /\ in_strides = None
    /\ op = "none"
    /\ sas = Unbuilt

Contiguous(buf) == [variant |-> "Contiguous", buf |-> buf, shape_p |-> NullPtr,
                    strides_p |-> NullPtr, len |-> 0]
WithStrides(buf) == [variant |-> "WithStrides", buf |-> buf, shape_p |-> NullPtr,
                     strides_p |-> NullPtr, len |-> 0]
Borrowed(sp, stp, n) == [variant |-> "Borrowed", buf |-> <<>>, shape_p |-> sp,
                         strides_p |-> stp, len |-> n]

\* std::slice::from_raw_parts(p, n): reads n elements of the caller's memory
from_raw_parts(p, n, mshape, mstrides) ==
    IF p = ShapeArr THEN SubSeq(mshape, 1, n) ELSE SubSeq(mstrides.v, 1, n)

new_contiguous(shape) == Contiguous(shape)

new_with_strides_unchecked(shape, strides) ==
    WithStrides(shape \o strides)

new_with_strides(shape, strides) ==
    IF Len(shape) # Len(strides) THEN Panic
    ELSE WithStrides(shape \o strides)

\* the loop body for index i (0-based), i running from len-1 down to 0
RECURSIVE ncws_loop(_, _, _, _)
ncws_loop(shape, buf, stride, i) ==
    IF i < 0 THEN buf
    ELSE LET len == Len(shape)
             b1 == [buf EXCEPT ![i + 1] = shape[i + 1]]
             b2 == [b1 EXCEPT ![i + len + 1] = stride]
         IN ncws_loop(shape, b2, stride * b2[i + 1], i - 1)

new_contiguous_with_strides_bad(shape) ==
    LET len == Len(shape)
    IN WithStrides(ncws_loop(shape, [k \in 1..(len * 2) |-> 0], 0, len - 1))

new_contiguous_with_strides(shape) ==
    LET len == Len(shape)
    IN WithStrides(ncws_loop(shape, [k \in 1..(len * 2) |-> 0], 1, len - 1))

new_borrowed(shape, strides) ==
    IF strides.some /\ Len(shape) # Len(strides.v) THEN Panic
    ELSE IF Len(shape) = 0 THEN Panic                    \* &shape[0]
    ELSE IF strides.some /\ Len(strides.v) = 0 THEN Panic  \* &s[0]
    ELSE Borrowed(ShapeArr, IF strides.some THEN StridesArr ELSE NullPtr,
                  Len(shape))

SAS_len_bad(s) ==
    CASE s.variant = "Contiguous" -> Len(s.buf)
      [] s.variant = "WithStrides" -> Len(s.buf)
      [] OTHER -> s.len

SAS_len(s) ==
    CASE s.variant = "Contiguous" -> Len(s.buf)
      [] s.variant = "WithStrides" -> Len(s.buf) \div 2
      [] OTHER -> s.len

SAS_shape(s, mshape, mstrides) ==
    CASE s.variant = "Contiguous" -> s.buf
      [] s.variant = "WithStrides" -> SubSeq(s.buf, 1, SAS_len(s))
      [] OTHER -> from_raw_parts(s.shape_p, SAS_len(s), mshape, mstrides)

SAS_strides_bad(s, mshape, mstrides) ==
    CASE s.variant = "Contiguous" -> None
      [] s.variant = "WithStrides" -> Some(SubSeq(s.buf, SAS_len(s) + 1, Len(s.buf)))
      [] OTHER -> IF s.strides_p = NullPtr THEN Some(<<>>)
                  ELSE Some(from_raw_parts(s.strides_p, SAS_len(s), mshape, mstrides))

SAS_strides(s, mshape, mstrides) ==
    CASE s.variant = "Contiguous" -> None
      [] s.variant = "WithStrides" -> Some(SubSeq(s.buf, SAS_len(s) + 1, Len(s.buf)))
      [] OTHER -> IF s.strides_p = NullPtr THEN None
                  ELSE Some(from_raw_parts(s.strides_p, SAS_len(s), mshape, mstrides))

\* the index ranges [lo, hi) of the buffer the two views of a WithStrides
\* value are sliced from: &v[0..self.len()] and &v[self.len()..]
SAS_shape_range(s) == [lo |-> 0, hi |-> SAS_len(s)]
SAS_strides_range(s) == [lo |-> SAS_len(s), hi |-> Len(s.buf)]

\* raw pointers: a base address and an element offset
Ptr(base, off) == [base |-> base, off |-> off]
BufAddr == "buf"                \* v.as_ptr() of the owned Box<[i64]>
PanicPtr == Ptr("panic", 0)     \* the call panicked instead of returning

\* as_ptr() of the views returned by shape() and strides()
SAS_shape_addr(s) ==
    CASE s.variant = "Contiguous" -> Ptr(BufAddr, 0)
      [] s.variant = "WithStrides" -> Ptr(BufAddr, SAS_shape_range(s).lo)
      [] OTHER -> Ptr(s.shape_p, 0)

SAS_strides_addr(s) ==
    CASE s.variant = "Contiguous" -> Ptr(NullPtr, 0)
      [] s.variant = "WithStrides" -> Ptr(BufAddr, SAS_strides_range(s).lo)
      [] OTHER -> Ptr(s.strides_p, 0)

SAS_shape_ptr(s) ==
    CASE s.variant = "Contiguous" -> Ptr(BufAddr, 0)
      [] s.variant = "WithStrides" -> Ptr(BufAddr, 0)
      [] OTHER -> Ptr(s.shape_p, 0)

\* &v[self.len()] is a bounds-checked index
SAS_strides_ptr(s) ==
    CASE s.variant = "Contiguous" -> Ptr(NullPtr, 0)
      [] s.variant = "WithStrides" ->
            IF SAS_len(s) >= Len(s.buf) THEN PanicPtr
            ELSE Ptr(BufAddr, SAS_len(s))
      [] OTHER -> IF s.strides_p = NullPtr THEN Ptr(NullPtr, 0)
                  ELSE Ptr(s.strides_p, 0)

\* crate::utils::is_contiguous: compare from the innermost dimension outward
RECURSIVE utils_loop(_, _, _, _)
utils_loop(shape, strides, i, expected) ==
    IF i < 1 THEN TRUE
    ELSE IF strides[i] # expected THEN FALSE
    ELSE utils_loop(shape, strides, i - 1, expected * shape[i])

utils_is_contiguous(shape, strides) ==
    utils_loop(shape, strides, Len(shape), 1)

SAS_is_contiguous_bad(s, mshape, mstrides) ==
    CASE s.variant = "Contiguous" -> TRUE
      [] s.variant = "Borrowed" /\ s.strides_p = NullPtr -> TRUE
      [] s.variant = "WithStrides" -> TRUE
      [] OTHER -> utils_is_contiguous(SAS_shape(s, mshape, mstrides),
                                      SAS_strides(s, mshape, mstrides).v)

SAS_is_contiguous(s, mshape, mstrides) ==
    CASE s.variant = "Contiguous" -> TRUE
      [] s.variant = "Borrowed" /\ s.strides_p = NullPtr -> TRUE
      [] OTHER -> utils_is_contiguous(SAS_shape(s, mshape, mstrides),
                                      SAS_strides(s, mshape, mstrides).v)

----------------------------------------------------------------------------
(* python.rs: values *)

DLPACK_CAPSULE_NAME == "dltensor"
DLPACK_CAPSULE_USED_NAME == "used_dltensor"
OtherName == "other"            \* any tag that is neither of the two

NullAddr == 0
TripleAddr == 1                 \* address of the triple handed out

NoCapsule == [tag |-> OtherName, ptr |-> NullAddr, alive |-> FALSE,
              ours |-> FALSE, valid |-> FALSE]
NoClaim == [done |-> FALSE, before |-> NoCapsule, after |-> NoCapsule,
            outcome |-> "none", ptr |-> NullAddr, yielded |-> FALSE]
NoDel == [done |-> FALSE, tag |-> OtherName, exc_before |-> "none",
          returned |-> FALSE, reported |-> 0, ncalls |-> 0, arg |-> NullAddr,
          failed |-> FALSE, ptr |-> NullAddr]

CapsuleIdle ==
    /\ caps = <<>>
    /\ tensors = <<>>
    /\ rawHeld = FALSE
    /\ released = <<>>
    /\ pyErr = "none"
    /\ unraisable = 0
    /\ crashed = "no"
    /\ deleterKind = "absent"
    /\ lastClaim = NoClaim
    /\ lastDel = NoDel

----------------------------------------------------------------------------
(* tensor.rs: ManagedTensorProxy / ManagedTensor holding the triple by value *)

NullCtx == 0
CtxVals == 0..MaxCtx

OwnedAddr == "owned_triple"     \* address of the triple the wrapper owns
DropLocalAddr == "drop_local"   \* address of the local dl_managed_tensor in drop
DanglingCtx == "dangling_ctx"   \* address of the by-value argument's manager_ctx

NoProxy == [dl_tensor |-> 0, ctx_ptr |-> None, deleter |-> "none"]
NoTriple == [dl_tensor |-> 0, manager_ctx |-> NullCtx, deleter |-> "none"]
NoLast == [op |-> "none", had |-> FALSE, ncalls |-> 0, addr |-> NullPtr,
           ret |-> NoTriple]

\* impl From<DLManagedTensor> for ManagedTensorProxy<T>
ManagedTensorProxy_from(value) ==
    [dl_tensor |-> value.dl_tensor,
     ctx_ptr |-> IF value.manager_ctx = NullCtx THEN None ELSE Some(DanglingCtx),
     deleter |-> value.deleter]

\* impl From<Pin<&mut ManagedTensorProxy<T>>> for DLManagedTensor;
\* read is what the dangling manager_ctx pointer yields
DLManagedTensor_from_pin(p, read) ==
    [dl_tensor |-> p.dl_tensor,
     manager_ctx |-> IF ~p.ctx_ptr.some THEN NullCtx ELSE read,
     deleter |-> p.deleter]

\* impl PinnedDrop for ManagedTensorProxy<T>: the release calls it makes
PinnedDrop_drop(p, read) ==
    LET dl_managed_tensor == DLManagedTensor_from_pin(p, read)
    IN IF p.deleter # "none"
       THEN <<[addr |-> DropLocalAddr, triple |-> dl_managed_tensor]>>
       ELSE <<>>

\* impl From<ManagedTensorProxy<T>> for DLManagedTensor: the returned triple
\* and the release calls made when the by-value argument goes out of scope
DLManagedTensor_from_proxy(p, read, read2) ==
    [ret |-> [dl_tensor |-> p.dl_tensor,
              manager_ctx |-> IF ~p.ctx_ptr.some THEN NullCtx ELSE read,
              deleter |-> p.deleter],
     calls |-> PinnedDrop_drop(p, read2)]

TensorIdle ==
    /\ t_triple = NoTriple
    /\ t_proxy = NoProxy
    /\ t_holder = "idle"
    /\ t_calls = <<>>
    /\ t_last = NoLast
    /\ t_rounds = 0

InitTensor ==
    /\ ShapeIdle
    /\ CapsuleIdle
    /\ t_triple \in [dl_tensor : 1..MaxDl, manager_ctx : CtxVals,
                     deleter : {"none", "del_fn"}]
    /\ t_proxy = NoProxy
    /\ t_holder = "raw"
    /\ t_calls = <<>>
    /\ t_last = NoLast
    /\ t_rounds = 0

\* impl From<DLManagedTensor> for ManagedTensor
ManagedTensor_from ==
    /\ t_holder = "raw"
    /\ t_proxy' = ManagedTensorProxy_from(t_triple)
    /\ t_triple' = NoTriple
    /\ t_holder' = "wrapped"
    /\ t_last' = [op |-> "from", had |-> t_triple.deleter # "none", ncalls |-> 0,
                  addr |-> NullPtr, ret |-> NoTriple]
    /\ UNCHANGED <<t_calls, t_rounds>>
    /\ UNCHANGED shapeVars
    /\ UNCHANGED capsuleVars

\* drop(ManagedTensor)
ManagedTensor_drop ==
    /\ t_holder = "wrapped"
    /\ \E read \in CtxVals :
        LET made == PinnedDrop_drop(t_proxy, read)
        IN /\ t_calls' = t_calls \o made
           /\ t_last' = [op |-> "drop", had |-> t_proxy.deleter # "none",
                         ncalls |-> Len(made),
                         addr |-> IF made = <<>> THEN NullPtr ELSE made[1].addr,
                         ret |-> NoTriple]
    /\ t_proxy' = NoProxy
    /\ t_holder' = "dropped"
    /\ UNCHANGED <<t_triple, t_rounds>>
    /\ UNCHANGED shapeVars
    /\ UNCHANGED capsuleVars

\* impl From<ManagedTensor> for DLManagedTensor
ManagedTensor_into ==
    /\ t_holder = "wrapped"
    /\ t_rounds < MaxRounds
    /\ \E read \in CtxVals, read2 \in CtxVals :
        LET r == DLManagedTensor_from_proxy(t_proxy, read, read2)
        IN /\ t_triple' = r.ret
           /\ t_calls' = t_calls \o r.calls
           /\ t_last' = [op |-> "into", had |-> t_proxy.deleter # "none",
                         ncalls |-> Len(r.calls),
                         addr |-> IF r.calls = <<>> THEN NullPtr ELSE r.calls[1].addr,
                         ret |-> r.ret]
    /\ t_proxy' = NoProxy
    /\ t_holder' = "raw"
    /\ t_rounds' = t_rounds + 1
    /\ UNCHANGED shapeVars
    /\ UNCHANGED capsuleVars

NextTensor ==
    \/ ManagedTensor_from
    \/ ManagedTensor_drop
    \/ ManagedTensor_into

SpecTensor == InitTensor /\ [][NextTensor]_vars

\* C4: dropping a ManagedTensor whose release callback is present invokes it
\* exactly once with the address of the triple the wrapper owns (not of a
\* copy); with the callback absent nothing is invoked.
C4_DropReleasesOwnTriple ==
    t_last.op = "drop" =>
        /\ t_last.had => (t_last.ncalls = 1 /\ t_last.addr = OwnedAddr)
        /\ ~t_last.had => t_last.ncalls = 0

\* C5: converting a ManagedTensor into the raw triple invokes no release
\* callback and the returned triple still carries the callback.
C5_IntoDoesNotRelease ==
    t_last.op = "into" =>
        /\ t_last.ncalls = 0
        /\ t_last.had => t_last.ret.deleter # "none"

----------------------------------------------------------------------------
(* Specification of the constructors: the caller's arrays are the inputs *)

InitShape ==
    /\ TensorIdle
    /\ CapsuleIdle
    /\ in_shape \in SeqsUpTo(DimVals, MaxLen)
    /\ in_strides \in {None} \cup {Some(t) : t \in SeqsUpTo(StrideVals, MaxLen)}
    /\ op = "none"
    /\ sas = Unbuilt

NewContiguous ==
    /\ op = "none"
    /\ ~in_strides.some
    /\ op' = "new_contiguous"
    /\ sas' = new_contiguous(in_shape)
    /\ UNCHANGED <<in_shape, in_strides>>
    /\ UNCHANGED tensorVars
    /\ UNCHANGED capsuleVars

NewWithStrides ==
    /\ op = "none"
    /\ in_strides.some
    /\ op' = "new_with_strides"
    /\ sas' = new_with_strides(in_shape, in_strides.v)
    /\ UNCHANGED <<in_shape, in_strides>>
    /\ UNCHANGED tensorVars
    /\ UNCHANGED capsuleVars

NewContiguousWithStrides ==
    /\ op = "none"
    /\ ~in_strides.some
    /\ op' = "new_contiguous_with_strides"
    /\ sas' = new_contiguous_with_strides(in_shape)
    /\ UNCHANGED <<in_shape, in_strides>>
    /\ UNCHANGED tensorVars
    /\ UNCHANGED capsuleVars

NewBorrowed ==
    /\ op = "none"
    /\ op' = "new_borrowed"
    /\ sas' = new_borrowed(in_shape, in_strides)
    /\ UNCHANGED <<in_shape, in_strides>>
    /\ UNCHANGED tensorVars
    /\ UNCHANGED capsuleVars

NextShape ==
    \/ NewContiguous
    \/ NewWithStrides
    \/ NewContiguousWithStrides
    \/ NewBorrowed

SpecShape == InitShape /\ [][NextShape]_vars

\* the same constructors on arrays of up to rank 4 with few distinct entries
InitShapeWide ==
    /\ TensorIdle
    /\ CapsuleIdle
    /\ in_shape \in SeqsUpTo(SmallVals, MaxWideLen)
    /\ in_strides \in {None} \cup {Some(t) : t \in SeqsUpTo(SmallVals, MaxWideLen)}
    /\ op = "none"
    /\ sas = Unbuilt

SpecShapeWide == InitShapeWide /\ [][NextShape]_vars

----------------------------------------------------------------------------
(* Properties of ShapeAndStrides *)

Built == sas.variant \in {"Contiguous", "WithStrides", "Borrowed"}

shape_view == SAS_shape(sas, in_shape, in_strides)
strides_view == SAS_strides(sas, in_shape, in_strides)
contig == SAS_is_contiguous(sas, in_shape, in_strides)

RECURSIVE Prod(_, _, _)
Prod(s, lo, hi) == IF lo > hi THEN 1 ELSE s[lo] * Prod(s, lo + 1, hi)

\* R[i] = product of S[i+1..n)
RowMajor(s) == [i \in 1..Len(s) |-> Prod(s, i + 1, Len(s))]

\* C8: a value built without explicit strides (new_contiguous(S) or
\* new_borrowed(S, None)) is contiguous, and strides() is None exactly for
\* those two forms: it is Some for every WithStrides value and for every
\* Borrowed value that was given strides.
C8_NoStridesContiguous ==
    Built =>
        /\ (op = "new_contiguous" \/ (op = "new_borrowed" /\ ~in_strides.some))
               => contig
        /\ (~strides_view.some) <=>
               (op = "new_contiguous" \/ (op = "new_borrowed" /\ ~in_strides.some))

C8_Witness ==
    /\ op = "new_borrowed"
    /\ sas.variant = "Borrowed"
    /\ ~in_strides.some
    /\ in_shape = <<1, 2, 3>>
    /\ ~strides_view.some
    /\ contig

\* C9: new_contiguous_with_strides(S) keeps shape() = S, has strides() equal
\* to the row-major strides R[i] = product of S[i+1..n), and is contiguous.
C9_RowMajorStrides ==
    op = "new_contiguous_with_strides" =>
        /\ Built
        /\ shape_view = in_shape
        /\ strides_view = Some(RowMajor(in_shape))
        /\ contig

C9_Witness ==
    /\ op = "new_contiguous_with_strides"
    /\ in_shape = <<1, 2, 3>>
    /\ shape_view = <<1, 2, 3>>
    /\ strides_view = Some(<<6, 3, 1>>)
    /\ contig

\* C10: for a value with explicit strides T over shape S (WithStrides, or
\* Borrowed with strides), is_contiguous() is true if and only if
\* T[i] = product of S[i+1..) for every i.
C10_ContiguousIffRowMajor ==
    (Built /\ strides_view.some) =>
        (contig <=>
            \A i \in 1..Len(shape_view) :
                strides_view.v[i] = Prod(shape_view, i + 1, Len(shape_view)))

C10_Witness ==
    /\ op = "new_with_strides"
    /\ sas.variant = "WithStrides"
    /\ shape_view = <<1, 2, 3>>
    /\ strides_view = Some(<<1, 2, 3>>)
    /\ ~contig

\* C11: new_with_strides(S, T) with Len(S) = Len(T) = n stores one buffer of
\* length 2n, len() is n, shape() is the entries [0, n) and equals S,
\* strides() is the entries [n, 2n) and equals T, and the two ranges do not
\* overlap.
C11_WithStridesLayout ==
    (op = "new_with_strides" /\ Len(in_shape) = Len(in_strides.v)) =>
        LET n == Len(in_shape)
            sr == SAS_shape_range(sas)
            tr == SAS_strides_range(sas)
        IN /\ sas.variant = "WithStrides"
           /\ Len(sas.buf) = 2 * n
           /\ SAS_len(sas) = n
           /\ sr = [lo |-> 0, hi |-> n]
           /\ tr = [lo |-> n, hi |-> 2 * n]
           /\ sr.hi <= tr.lo
           /\ shape_view = in_shape
           /\ shape_view = [i \in 1..n |-> sas.buf[i]]
           /\ strides_view = Some(in_strides.v)
           /\ strides_view.v = [i \in 1..n |-> sas.buf[n + i]]
           /\ Len(shape_view) = Len(strides_view.v)

C11_Witness ==
    /\ op = "new_with_strides"
    /\ sas.variant = "WithStrides"
    /\ in_shape = <<1, 0, 1, 1>>
    /\ in_strides = Some(<<0, 1, 0, 0>>)
    /\ Len(sas.buf) = 8
    /\ shape_view = <<1, 0, 1, 1>>
    /\ strides_view = Some(<<0, 1, 0, 0>>)

\* C12: every constructor accepts the rank-0 shape: the result has ndim 0,
\* an empty shape view, an empty or absent strides view, and is contiguous.
C12_ScalarAccepted ==
    (op # "none" /\ in_shape = <<>> /\ (in_strides.some => in_strides.v = <<>>)) =>
        /\ Built
        /\ SAS_len(sas) = 0
        /\ shape_view = <<>>
        /\ strides_view.v = <<>>
        /\ contig

\* C13: new_with_strides(S, T) and new_borrowed(S, Some(T)) with
\* Len(S) # Len(T) panic and produce no value.
C13_MismatchPanics ==
    (op \in {"new_with_strides", "new_borrowed"} /\ in_strides.some
        /\ Len(in_shape) # Len(in_strides.v)) =>
        (sas = Panic /\ ~Built)

C13_Witness ==
    /\ op = "new_with_strides"
    /\ in_shape = <<>>
    /\ in_strides = Some(<<1>>)
    /\ sas = Panic

\* C19: strides_ptr() returns null exactly when strides() is None and
\* otherwise the address of the first element of the strides() view, without
\* failing; shape_ptr() returns the address of the shape() view.
C19_PointersAgreeWithViews ==
    Built =>
        /\ SAS_strides_ptr(sas) # PanicPtr
        /\ (SAS_strides_ptr(sas) = Ptr(NullPtr, 0)) <=> ~strides_view.some
        /\ strides_view.some => SAS_strides_ptr(sas) = SAS_strides_addr(sas)
        /\ SAS_shape_ptr(sas) = SAS_shape_addr(sas)

----------------------------------------------------------------------------
(* python.rs: the host's capsule primitives *)

\* PyCapsule_IsValid(capsule, name) == 1
PyCapsule_IsValid(cap, name) ==
    cap.valid /\ cap.ptr # NullAddr /\ cap.tag = name

\* PyCapsule_GetPointer(capsule, name): the pointer, or NULL with an error set
PyCapsule_GetPointer(cap, name, err) ==
    IF cap.valid /\ cap.tag = name
    THEN [ptr |-> cap.ptr, err |-> err]
    ELSE [ptr |-> NullAddr, err |-> "ValueError"]

\* PyCapsule_SetName(capsule, name): renames any legal capsule
PyCapsule_SetName(cap, name, err) ==
    IF cap.valid
    THEN [cap |-> [cap EXCEPT !.tag = name], err |-> err]
    ELSE [cap |-> cap, err |-> "ValueError"]

\* PyCapsule_New(pointer, name, destructor)
PyCapsule_New(ptr, name) ==
    [tag |-> name, ptr |-> ptr, alive |-> TRUE, ours |-> TRUE, valid |-> TRUE]

----------------------------------------------------------------------------
(* python.rs: the hand-off protocol *)

dlpack_to_py_capsule_usedname(dlpack) ==
    PyCapsule_New(dlpack, DLPACK_CAPSULE_USED_NAME)

dlpack_to_py_capsule(dlpack) == PyCapsule_New(dlpack, DLPACK_CAPSULE_NAME)

py_capsule_to_dlpack_norename(cap, err) ==
    LET g == PyCapsule_GetPointer(cap, DLPACK_CAPSULE_NAME, err)
    IN [ptr |-> g.ptr, cap |-> cap, err |-> g.err]

py_capsule_to_dlpack_wrongname(cap, err) ==
    LET g == PyCapsule_GetPointer(cap, DLPACK_CAPSULE_NAME, err)
        n == PyCapsule_SetName(cap, OtherName, g.err)
    IN [ptr |-> g.ptr, cap |-> n.cap, err |-> n.err]

\* the pointer read with the active tag, the capsule after the rename, and
\* the pending exception afterwards
py_capsule_to_dlpack(cap, err) ==
    LET g == PyCapsule_GetPointer(cap, DLPACK_CAPSULE_NAME, err)
        n == PyCapsule_SetName(cap, DLPACK_CAPSULE_USED_NAME, g.err)
    IN [ptr |-> g.ptr, cap |-> n.cap, err |-> n.err]

\* the run of the destructor up to the point where the deleter has been
\* called; ub is what a panic inside the extern "C" function turns into
DeleterResult(returned, err, reported, rel, failed, crash) ==
    [returned |-> returned, err |-> err, reported |-> reported, rel |-> rel,
     failed |-> failed, crash |-> crash]

dlpack_capsule_deleter_norestore(cap, err, dk, ub) ==
    IF PyCapsule_IsValid(cap, DLPACK_CAPSULE_USED_NAME)
    THEN DeleterResult(TRUE, err, 0, <<>>, FALSE, "no")
    ELSE LET exc == err
             g == PyCapsule_GetPointer(cap, DLPACK_CAPSULE_NAME, "none")
         IN IF g.ptr = NullAddr
            THEN DeleterResult(TRUE, "none", 1, <<>>, FALSE, "no")
            ELSE IF dk = "absent"
            THEN DeleterResult(TRUE, exc, 0, <<>>, FALSE, "no")
            ELSE IF dk = "ok"
            THEN DeleterResult(TRUE, exc, 0, <<g.ptr>>, FALSE, "no")
            ELSE DeleterResult(FALSE, "DeleterError", 0, <<g.ptr>>, TRUE, ub)

dlpack_capsule_deleter_norelease(cap, err, dk, ub) ==
    IF PyCapsule_IsValid(cap, DLPACK_CAPSULE_USED_NAME)
    THEN DeleterResult(TRUE, err, 0, <<>>, FALSE, "no")
    ELSE LET exc == err
             g == PyCapsule_GetPointer(cap, DLPACK_CAPSULE_NAME, "none")
         IN IF g.ptr = NullAddr
            THEN DeleterResult(TRUE, exc, 1, <<>>, FALSE, "no")
            ELSE DeleterResult(TRUE, exc, 0, <<>>, FALSE, "no")

dlpack_capsule_deleter_noearly(cap, err, dk, ub) ==
    LET exc == err
        g == PyCapsule_GetPointer(cap, DLPACK_CAPSULE_NAME, "none")
    IN IF g.ptr = NullAddr
       THEN DeleterResult(TRUE, exc, 1, <<>>, FALSE, "no")
       ELSE IF dk = "absent"
       THEN DeleterResult(TRUE, exc, 0, <<>>, FALSE, "no")
       ELSE IF dk = "ok"
       THEN DeleterResult(TRUE, exc, 0, <<g.ptr>>, FALSE, "no")
       ELSE DeleterResult(FALSE, "DeleterError", 0, <<g.ptr>>, TRUE, ub)

dlpack_capsule_deleter_noreport(cap, err, dk, ub) ==
    IF PyCapsule_IsValid(cap, DLPACK_CAPSULE_USED_NAME)
    THEN DeleterResult(TRUE, err, 0, <<>>, FALSE, "no")
    ELSE LET exc == err
             g == PyCapsule_GetPointer(cap, DLPACK_CAPSULE_NAME, "none")
         IN IF g.ptr = NullAddr
            THEN DeleterResult(TRUE, exc, 0, <<>>, FALSE, "no")
            ELSE IF dk = "absent"
            THEN DeleterResult(TRUE, exc, 0, <<>>, FALSE, "no")
            ELSE IF dk = "ok"
            THEN DeleterResult(TRUE, exc, 0, <<g.ptr>>, FALSE, "no")
            ELSE DeleterResult(FALSE, "DeleterError", 0, <<g.ptr>>, TRUE, ub)

dlpack_capsule_deleter(cap, err, dk, ub) ==
    IF PyCapsule_IsValid(cap, DLPACK_CAPSULE_USED_NAME)
    THEN DeleterResult(TRUE, err, 0, <<>>, FALSE, "no")
    ELSE \* exc = PyErr_GetRaisedException() clears the pending exception
         LET exc == err
             g == PyCapsule_GetPointer(cap, DLPACK_CAPSULE_NAME, "none")
         IN IF g.ptr = NullAddr
            THEN \* PyErr_WriteUnraisable reports and clears the error of
                 \* PyCapsule_GetPointer; PyErr_SetRaisedException(exc)
                 DeleterResult(TRUE, exc, 1, <<>>, FALSE, "no")
            ELSE IF dk = "absent"
            THEN DeleterResult(TRUE, exc, 0, <<>>, FALSE, "no")
            ELSE IF dk = "ok"
            THEN \* del_fn(managed); the assertion passes
                 DeleterResult(TRUE, exc, 0, <<g.ptr>>, FALSE, "no")
            ELSE \* del_fn(managed) left an error: assert! panics
                 DeleterResult(FALSE, "DeleterError", 0, <<g.ptr>>, TRUE, ub)

\* ManagedTensor::new(ptr)
ManagedTensor_new(ptr) == [ptr |-> ptr, alive |-> TRUE]

\* ManagedTensor::into_inner(self)
ManagedTensor_into_inner(t) == t.ptr

\* Drop for ManagedTensor: the release calls, the pending exception, the crash
ManagedTensor_release(t, err, dk) ==
    IF t.ptr = NullAddr
    THEN [rel |-> <<>>, err |-> err, crash |-> "segv"]
    ELSE IF dk = "absent"
    THEN [rel |-> <<>>, err |-> err, crash |-> "no"]
    ELSE [rel |-> <<t.ptr>>,
          err |-> IF dk = "fails" THEN "DeleterError" ELSE err,
          crash |-> "no"]

----------------------------------------------------------------------------
(* python.rs: the protocol as a state machine *)

ForeignAddr == 2

ForeignObjects ==
    {[tag |-> OtherName, ptr |-> ForeignAddr, alive |-> TRUE, ours |-> FALSE,
      valid |-> TRUE],
     [tag |-> OtherName, ptr |-> NullAddr, alive |-> TRUE, ours |-> FALSE,
      valid |-> FALSE]}

Init ==
    /\ ShapeIdle
    /\ TensorIdle
    /\ caps \in {<<f>> : f \in ForeignObjects}
    /\ tensors = <<>>
    /\ rawHeld = TRUE
    /\ released = <<>>
    /\ pyErr \in {"none", "E"}
    /\ unraisable = 0
    /\ crashed = "no"
    /\ deleterKind \in {"absent", "ok", "fails"}
    /\ lastClaim = NoClaim
    /\ lastDel = NoDel

\* impl IntoPyObject for ManagerCtx<T>
IntoPyObject_ManagerCtx ==
    /\ crashed = "no"
    /\ rawHeld
    /\ Len(caps) < MaxCapsules
    /\ caps' = Append(caps, dlpack_to_py_capsule(TripleAddr))
    /\ rawHeld' = FALSE
    /\ UNCHANGED <<tensors, released, pyErr, unraisable, crashed, deleterKind,
                   lastClaim, lastDel>>
    /\ UNCHANGED <<shapeVars, tensorVars>>

\* impl FromPyObject for ManagedTensor (extract_bound -> from_py_ptr);
\* ub is what NonNull::new_unchecked(null) turns into
ExtractBound(i, ub) ==
    /\ crashed = "no"
    /\ i \in 1..Len(caps)
    /\ caps[i].alive
    /\ Len(tensors) < MaxTensors
    /\ LET r == py_capsule_to_dlpack(caps[i], pyErr)
           abort == r.ptr = NullAddr /\ ub = "abort"
       IN /\ caps' = [caps EXCEPT ![i] = r.cap]
          /\ pyErr' = r.err
          /\ crashed' = IF abort THEN "abort" ELSE "no"
          /\ tensors' = IF abort THEN tensors
                        ELSE Append(tensors, ManagedTensor_new(r.ptr))
          /\ lastClaim' = [done |-> TRUE, before |-> caps[i], after |-> r.cap,
                           outcome |-> IF abort THEN "abort" ELSE "Ok",
                           ptr |-> r.ptr, yielded |-> ~abort]
    /\ UNCHANGED <<rawHeld, released, unraisable, deleterKind, lastDel>>
    /\ UNCHANGED <<shapeVars, tensorVars>>

\* impl IntoPyObject for ManagedTensor
IntoPyObject_ManagedTensor(k) ==
    /\ crashed = "no"
    /\ k \in 1..Len(tensors)
    /\ tensors[k].alive
    /\ Len(caps) < MaxCapsules
    /\ LET ptr == ManagedTensor_into_inner(tensors[k])
       IN IF ptr = NullAddr
          THEN \* PyCapsule_New(NULL, ..) fails and from_owned_ptr panics
               /\ crashed' = "panic"
               /\ pyErr' = "ValueError"
               /\ caps' = caps
          ELSE /\ caps' = Append(caps, dlpack_to_py_capsule(ptr))
               /\ UNCHANGED <<crashed, pyErr>>
    /\ tensors' = [tensors EXCEPT ![k].alive = FALSE]
    /\ UNCHANGED <<rawHeld, released, unraisable, deleterKind, lastClaim, lastDel>>
    /\ UNCHANGED <<shapeVars, tensorVars>>

\* drop(ManagedTensor)
DropTensor(k) ==
    /\ crashed = "no"
    /\ k \in 1..Len(tensors)
    /\ tensors[k].alive
    /\ LET r == ManagedTensor_release(tensors[k], pyErr, deleterKind)
       IN /\ released' = released \o r.rel
          /\ pyErr' = r.err
          /\ crashed' = r.crash
    /\ tensors' = [tensors EXCEPT ![k].alive = FALSE]
    /\ UNCHANGED <<caps, rawHeld, unraisable, deleterKind, lastClaim, lastDel>>
    /\ UNCHANGED <<shapeVars, tensorVars>>

\* the host frees capsule i and runs its destructor dlpack_capsule_deleter
DestroyCapsule(i, ub) ==
    /\ crashed = "no"
    /\ i \in 1..Len(caps)
    /\ caps[i].alive
    /\ caps[i].ours
    /\ LET r == dlpack_capsule_deleter(caps[i], pyErr, deleterKind, ub)
       IN /\ released' = released \o r.rel
          /\ pyErr' = r.err
          /\ unraisable' = unraisable + r.reported
          /\ crashed' = r.crash
          /\ lastDel' = [done |-> TRUE, tag |-> caps[i].tag, exc_before |-> pyErr,
                         returned |-> r.returned, reported |-> r.reported,
                         ncalls |-> Len(r.rel),
                         arg |-> IF r.rel = <<>> THEN NullAddr ELSE r.rel[1],
                         failed |-> r.failed, ptr |-> caps[i].ptr]
    /\ caps' = [caps EXCEPT ![i].alive = FALSE]
    /\ UNCHANGED <<tensors, rawHeld, deleterKind, lastClaim>>
    /\ UNCHANGED <<shapeVars, tensorVars>>

Next ==
    \/ IntoPyObject_ManagerCtx
    \/ \E i \in 1..MaxCapsules, ub \in {"abort", "null"} : ExtractBound(i, ub)
    \/ \E k \in 1..MaxTensors : IntoPyObject_ManagedTensor(k)
    \/ \E k \in 1..MaxTensors : DropTensor(k)
    \/ \E i \in 1..MaxCapsules, ub \in {"abort", "unwind"} : DestroyCapsule(i, ub)

Spec == Init /\ [][Next]_vars

\* the destructor on a capsule in any state, under any pending exception
InitDeleter ==
    /\ ShapeIdle
    /\ TensorIdle
    /\ caps \in {<<[tag |-> t, ptr |-> a, alive |-> TRUE, ours |-> TRUE,
                    valid |-> TRUE]>> :
                 t \in {DLPACK_CAPSULE_NAME, DLPACK_CAPSULE_USED_NAME, OtherName},
                 a \in 1..MaxAddr}
    /\ tensors = <<>>
    /\ rawHeld = FALSE
    /\ released = <<>>
    /\ pyErr \in {"none", "E", "ValueError"}
    /\ unraisable = 0
    /\ crashed = "no"
    /\ deleterKind \in {"absent", "ok", "fails"}
    /\ lastClaim = NoClaim
    /\ lastDel = NoDel

NextDeleter ==
    \E ub \in {"abort", "unwind"} : DestroyCapsule(1, ub)

SpecDeleter == InitDeleter /\ [][NextDeleter]_vars

----------------------------------------------------------------------------
(* Properties of the hand-off protocol *)

OurCapsules == {i \in 1..Len(caps) : caps[i].ours}

TornDown ==
    /\ ~rawHeld
    /\ \A i \in OurCapsules : ~caps[i].alive
    /\ \A k \in 1..Len(tensors) : ~tensors[k].alive

\* C1: whatever sequence of claims, drops of ManagedTensors and capsule
\* destructor runs happens, the release callback of the triple is invoked
\* at most once.
C1_ReleaseAtMostOnce == Len(released) <= 1

C1_Witness ==
    /\ Len(released) = 1
    /\ TornDown
    /\ Len(tensors) >= 1
    /\ lastClaim.done
    /\ lastDel.done /\ lastDel.tag = DLPACK_CAPSULE_USED_NAME

\* C2: once the capsules are destroyed and every ManagedTensor obtained from
\* them is dropped, a triple that has a release callback has had it run
\* exactly once, whether the capsule was claimed or left unclaimed.
C2_ReleasedExactlyOnce ==
    (TornDown /\ crashed = "no" /\ deleterKind # "absent") => Len(released) = 1

C2_Witness ==
    /\ TornDown
    /\ crashed = "no"
    /\ deleterKind = "ok"
    /\ tensors = <<>>
    /\ lastDel.done /\ lastDel.tag = DLPACK_CAPSULE_NAME
    /\ released = <<TripleAddr>>

\* C3: a claim on a capsule whose tag is not the active tag fails with an
\* error returned to the caller and yields no ManagedTensor.
C3_FailedClaimReturnsError ==
    (lastClaim.done /\ lastClaim.before.tag # DLPACK_CAPSULE_NAME) =>
        /\ lastClaim.outcome = "Err"
        /\ ~lastClaim.yielded

\* C6: when the destructor returns, the host's pending exception is the one
\* it found, for every tag and every pending exception.
C6_PendingExceptionPreserved ==
    (lastDel.done /\ lastDel.returned) => pyErr = lastDel.exc_before

C6_Witness ==
    /\ lastDel.done
    /\ lastDel.returned
    /\ lastDel.tag = OtherName
    /\ lastDel.exc_before = "E"
    /\ lastDel.reported = 1
    /\ pyErr = "E"

\* C7: when the release callback invoked by the destructor fails, the
\* destructor reports it through the unraisable channel and returns normally.
C7_ReleaseFailureReported ==
    (lastDel.done /\ lastDel.failed) =>
        /\ lastDel.returned
        /\ lastDel.reported >= 1
        /\ crashed = "no"

\* C14: a capsule made by dlpack_to_py_capsule starts with the active tag,
\* its tag changes only from active to claimed, and a claimed capsule stays
\* claimed under every later operation.
C14_TagOnlyActiveToClaimed ==
    [][/\ \A i \in 1..Len(caps) :
            caps[i].ours =>
                \/ caps'[i].tag = caps[i].tag
                \/ /\ caps[i].tag = DLPACK_CAPSULE_NAME
                   /\ caps'[i].tag = DLPACK_CAPSULE_USED_NAME
       /\ \A i \in 1..Len(caps) :
            (caps[i].ours /\ caps[i].tag = DLPACK_CAPSULE_USED_NAME)
                => caps'[i].tag = DLPACK_CAPSULE_USED_NAME
       /\ \A i \in (Len(caps) + 1)..Len(caps') :
            caps'[i].ours => caps'[i].tag = DLPACK_CAPSULE_NAME]_vars

C14_Witness ==
    /\ lastClaim.done
    /\ lastClaim.before.ours
    /\ lastClaim.before.tag = DLPACK_CAPSULE_USED_NAME
    /\ lastClaim.after.tag = DLPACK_CAPSULE_USED_NAME
    /\ lastDel.done
    /\ lastDel.tag = DLPACK_CAPSULE_USED_NAME

\* C15: the destructor of a capsule whose tag is claimed does nothing: no
\* release call, no unraisable report, no change of the pending exception.
C15_ClaimedDestructorNoOp ==
    (lastDel.done /\ lastDel.tag = DLPACK_CAPSULE_USED_NAME) =>
        /\ lastDel.returned
        /\ lastDel.ncalls = 0
        /\ lastDel.reported = 0
        /\ released = <<>>
        /\ unraisable = 0
        /\ pyErr = lastDel.exc_before
        /\ crashed = "no"

C15_Witness ==
    /\ lastDel.done
    /\ lastDel.tag = DLPACK_CAPSULE_USED_NAME
    /\ deleterKind = "fails"
    /\ lastDel.exc_before = "E"
    /\ pyErr = "E"
    /\ released = <<>>

\* C16: the destructor of a capsule whose tag is active calls the release
\* callback exactly once with the stored pointer if it is present and calls
\* nothing and returns if it is absent; with a tag that is neither active
\* nor claimed it calls nothing and reports through the unraisable channel.
C16_ActiveDestructorReleases ==
    lastDel.done =>
        /\ (lastDel.tag = DLPACK_CAPSULE_NAME /\ deleterKind # "absent") =>
               (lastDel.ncalls = 1 /\ lastDel.arg = lastDel.ptr
                    /\ released = <<lastDel.ptr>>)
        /\ (lastDel.tag = DLPACK_CAPSULE_NAME /\ deleterKind = "absent") =>
               (lastDel.ncalls = 0 /\ lastDel.returned /\ crashed = "no")
        /\ lastDel.tag = OtherName =>
               (lastDel.ncalls = 0 /\ lastDel.reported = 1 /\ unraisable = 1)

C16_Witness ==
    /\ lastDel.done
    /\ lastDel.tag = DLPACK_CAPSULE_NAME
    /\ deleterKind = "ok"
    /\ lastDel.ptr = MaxAddr
    /\ released = <<MaxAddr>>
    /\ lastDel.returned

\* C17: a claim attempt on a capsule whose tag is not active leaves the
\* capsule's tag and pointer as they were.
C17_FailedClaimLeavesCapsule ==
    (lastClaim.done /\ lastClaim.before.tag # DLPACK_CAPSULE_NAME) =>
        /\ lastClaim.after.tag = lastClaim.before.tag
        /\ lastClaim.after.ptr = lastClaim.before.ptr

\* the owners of the triple: the producer's raw pointer, an unclaimed live
\* capsule, or a live ManagedTensor around the triple
OwnerCount ==
    (IF rawHeld THEN 1 ELSE 0)
    + Cardinality({i \in OurCapsules :
                      caps[i].alive /\ caps[i].tag = DLPACK_CAPSULE_NAME})
    + Cardinality({k \in 1..Len(tensors) :
                      tensors[k].alive /\ tensors[k].ptr = TripleAddr})

====
